---- MODULE Spec2Model ----
(***************************************************************************)
(* Model of src/app.py: the anomaly engine of the ad-traffic dashboard.    *)
(*                                                                         *)
(*   clean_val            (lines 25-29)  normalises one cell               *)
(*   load_and_clean_data  (lines 17-47)  normalise, derive LP_View_Rate,   *)
(*                                       drop rows with impressions <= 10  *)
(*   the script body      (lines 153-186) ghost_clicks, flooding, figures  *)
(*                                                                         *)
(* The script is a Streamlit script: it runs from top to bottom each time  *)
(* a widget changes (a file is uploaded or removed, a slider is moved).    *)
(* One action of the model is one such run.                                *)
(*                                                                         *)
(* Numbers.  A number is a record [nan, num, den] standing for num/den,    *)
(* or for the float NaN when nan is TRUE.  Order comparisons with NaN are  *)
(* FALSE, as in IEEE arithmetic.  Arithmetic is exact (no rounding).       *)
(*                                                                         *)
(* Text.  A string is a tuple of one-character strings.                    *)
(***************************************************************************)
EXTENDS Integers, Sequences, FiniteSets, TLC

VARIABLES
    uploaded_file,          \* the table pd.read_csv yields, or NoFile
    df,                     \* what load_and_clean_data returned (or None)
    threshold_ctr_high,     \* slider, line 140
    threshold_quality_low,  \* slider, line 141
    percentile_imp,         \* slider, line 144
    threshold_ctr_low,      \* slider, line 145
    ghost_clicks,           \* lines 158-161: index labels, in result order
    imp_threshold_val,      \* line 163: the impressions cutoff
    flooding,               \* lines 163-167: index labels, in result order
    messages,               \* what the run reported through st.error/st.warning/st.info
    status,                 \* how the last run of the script ended
    x,                      \* a raw cell handed to clean_val
    cleaned                 \* clean_val's result for x, once applied

vars == <<uploaded_file, df, threshold_ctr_high, threshold_quality_low,
          percentile_imp, threshold_ctr_low, ghost_clicks, imp_threshold_val,
          flooding, messages, status, x, cleaned>>

-----------------------------------------------------------------------------
(* Bounds of the model *)

\* longest text cell handed to clean_val on its own
MaxLen == 3
\* most rows of an uploaded table with free-form text cells
MaxRowsText == 2
\* most rows of an uploaded table with plain numeric cells
MaxRowsNum == 4

-----------------------------------------------------------------------------
(* Numbers *)

NaN == [nan |-> TRUE, num |-> 0, den |-> 1]
Rat(n, d) == [nan |-> FALSE, num |-> n, den |-> d]
Num(n) == Rat(n, 1)

\* a > b on floats: FALSE when either is NaN
Gt(a, b) == ~a.nan /\ ~b.nan /\ a.num * b.den > b.num * a.den
Lt(a, b) == Gt(b, a)
Ge(a, b) == ~a.nan /\ ~b.nan /\ a.num * b.den >= b.num * a.den
\* a == b on floats
Eq(a, b) == ~a.nan /\ ~b.nan /\ a.num * b.den = b.num * a.den

Neg(a) == IF a.nan THEN NaN ELSE Rat(0 - a.num, a.den)

\* a / b for float64 operands with b > 0 (the only use, line 37)
Div(a, b) ==
    IF a.nan \/ b.nan THEN NaN ELSE Rat(a.num * b.den, a.den * b.num)

-----------------------------------------------------------------------------
(* Text *)

Digits == {"0", "1", "2", "3", "4", "5", "6", "7", "8", "9"}

DigitVal(c) ==
    CASE c = "0" -> 0 [] c = "1" -> 1 [] c = "2" -> 2 [] c = "3" -> 3
      [] c = "4" -> 4 [] c = "5" -> 5 [] c = "6" -> 6 [] c = "7" -> 7
      [] c = "8" -> 8 [] c = "9" -> 9

\* str.replace(c, ''): every occurrence of the character c removed
RECURSIVE replace(_, _)
replace(s, c) ==
    IF s = <<>> THEN <<>>
    ELSE IF Head(s) = c THEN replace(Tail(s), c)
    ELSE <<Head(s)>> \o replace(Tail(s), c)

RECURSIVE lstrip(_)
lstrip(s) ==
    IF s = <<>> THEN <<>>
    ELSE IF Head(s) = " " THEN lstrip(Tail(s)) ELSE s

RECURSIVE rstrip(_)
rstrip(s) ==
    IF s = <<>> THEN <<>>
    ELSE IF s[Len(s)] = " " THEN rstrip(SubSeq(s, 1, Len(s) - 1)) ELSE s

\* str.strip(): leading and trailing whitespace removed
strip(s) == rstrip(lstrip(s))

\* the value of a run of digits, read left to right
RECURSIVE digits_value(_, _)
digits_value(s, acc) ==
    IF s = <<>> THEN acc
    ELSE digits_value(Tail(s), 10 * acc + DigitVal(Head(s)))

all_digits(s) == s # <<>> /\ \A i \in 1..Len(s) : s[i] \in Digits

\* pd.to_numeric(text, errors='coerce') for a scalar string: surrounding
\* whitespace is skipped, one leading sign is accepted, and text that is not
\* a numeral gives NaN instead of raising.  (The texts of the model hold no
\* decimal point, exponent or "inf"/"nan" word.)
to_numeric_str(s) ==
    LET t == strip(s) IN
    IF t = <<>> THEN NaN
    ELSE IF Head(t) = "-"
         THEN IF all_digits(Tail(t)) THEN Num(0 - digits_value(Tail(t), 0)) ELSE NaN
    ELSE IF Head(t) = "+"
         THEN IF all_digits(Tail(t)) THEN Num(digits_value(Tail(t), 0)) ELSE NaN
    ELSE IF all_digits(t) THEN Num(digits_value(t, 0)) ELSE NaN

-----------------------------------------------------------------------------
(* Cells.  pd.read_csv yields a str for a cell of a column it could not    *)
(* parse as numbers, and a number (NaN for an empty cell) otherwise.       *)

Str(s) == [str |-> TRUE, s |-> s, v |-> NaN]
Val(v) == [str |-> FALSE, s |-> <<>>, v |-> v]

\* pd.to_numeric(x, errors='coerce') for a scalar
to_numeric(c) == IF c.str THEN to_numeric_str(c.s) ELSE c.v

\* clean_val without the placeholder test of line 28
clean_val_no_dash(c) ==
    IF c.str THEN to_numeric(Str(replace(replace(c.s, ","), "%")))
    ELSE to_numeric(c)

\* lines 25-29
clean_val(c) ==
    IF c.str
    THEN LET t == replace(replace(c.s, ","), "%") IN
         IF strip(t) = <<"-">> THEN Num(0) ELSE to_numeric(Str(t))
    ELSE to_numeric(c)

-----------------------------------------------------------------------------
(* Tables.  The columns of the model stand for the report's headers:       *)
(*   "ctr" CTR, "imp" impressions, "clicks" link clicks, "views" landing-  *)
(*   page views.  The pass-through columns (day, ad name, CPM, spend) are  *)
(*   taken to be present and take no part in the engine.                   *)
(* A table is [cols, rows]; a row maps each column to its cell; the cell   *)
(* of a column the table lacks is never read.                              *)

Columns == {"ctr", "imp", "clicks", "views"}

NoFile == [present |-> FALSE, cols |-> {}, rows |-> <<>>]
File(cols, rows) == [present |-> TRUE, cols |-> cols, rows |-> rows]

\* load_and_clean_data's results: None (line 47), or a frame whose rows
\* carry their index label idx, the normalised columns and LP_View_Rate
None == [none |-> TRUE, cols |-> {}, rows |-> <<>>]
Frame(cols, rows) == [none |-> FALSE, cols |-> cols, rows |-> rows]

\* lines 31-33: clean_val applied to every numeric column the table has
normalize(cols, r) ==
    [c \in Columns |-> IF c \in cols THEN clean_val(r[c]) ELSE NaN]

\* the lambda of line 37 with != 0 in place of > 0
lp_view_rate_nonzero(row) ==
    IF ~row.clicks.nan /\ row.clicks.num # 0
    THEN IF row.clicks.num > 0 THEN Div(row.views, row.clicks)
         ELSE Div(Neg(row.views), Neg(row.clicks))
    ELSE Num(0)

\* the lambda of line 37
lp_view_rate(row) ==
    IF Gt(row.clicks, Num(0)) THEN Div(row.views, row.clicks) ELSE Num(0)

\* lines 35-40: the LP_View_Rate column
with_lp(cols, i, row) ==
    [idx |-> i, ctr |-> row.ctr, imp |-> row.imp, clicks |-> row.clicks,
     views |-> row.views,
     lp |-> IF "views" \in cols /\ "clicks" \in cols
            THEN lp_view_rate(row) ELSE Num(0)]

\* line 42: the least impressions count a row must exceed
NoiseFloor == 10

\* line 42 with >= in place of >
noise_filter_ge(row) == Ge(row.imp, Num(NoiseFloor))

\* line 42: df['imp'] > 10
noise_filter(row) == Gt(row.imp, Num(NoiseFloor))

RECURSIVE select(_, _)
select(rows, i) ==
    IF i > Len(rows) THEN <<>>
    ELSE IF noise_filter(rows[i]) THEN <<rows[i]>> \o select(rows, i + 1)
    ELSE select(rows, i + 1)

\* The outcomes of load_and_clean_data(file), lines 17-47.
\*  - Without the impressions column line 42 raises KeyError, which line 45
\*    catches: st.error and None.
\*  - For a table of no rows that has both quality columns, df.apply(...,
\*    axis=1) of line 36 is applied to an empty frame.  pandas then returns
\*    either an empty Series (the assignment succeeds and the result is an
\*    empty frame) or a copy of the empty frame (the assignment of a frame
\*    to one column raises ValueError, caught at line 45: None), depending
\*    on the pandas release the program is installed with.  Both outcomes
\*    are kept.
load_and_clean_data(file) ==
    LET cols == file.cols
        n == Len(file.rows)
        derived == [i \in 1..n |-> with_lp(cols, i, normalize(cols, file.rows[i]))]
    IN  IF "imp" \notin cols THEN {None}
        ELSE IF n = 0 /\ "views" \in cols /\ "clicks" \in cols
             THEN {None, Frame(cols \cup {"lp"}, <<>>)}
        ELSE {Frame(cols \cup {"lp"}, select(derived, 1))}

-----------------------------------------------------------------------------
(* The analysis block, lines 156-167 *)

\* the positions of a frame's rows
Pos(d) == 1..Len(d.rows)

\* lines 159-160 with >= and <= in place of > and <
ghost_mask_inclusive(d, ctr_high, quality_low) ==
    {i \in Pos(d) : Ge(d.rows[i].ctr, ctr_high) /\ Ge(quality_low, d.rows[i].lp)}

\* lines 159-160: (df[ctr] > threshold_ctr_high) & (df[LP_View_Rate] < threshold_quality_low)
ghost_mask(d, ctr_high, quality_low) ==
    {i \in Pos(d) : Gt(d.rows[i].ctr, ctr_high) /\ Lt(d.rows[i].lp, quality_low)}

\* v put into the ascending sequence s
RECURSIVE insert(_, _)
insert(v, s) ==
    IF s = <<>> THEN <<v>>
    ELSE IF Gt(Head(s), v) THEN <<v>> \o s
    ELSE <<Head(s)>> \o insert(v, Tail(s))

\* the non-NaN values of column imp, ascending
RECURSIVE sorted_imp(_, _)
sorted_imp(rows, i) ==
    IF i > Len(rows) THEN <<>>
    ELSE IF rows[i].imp.nan THEN sorted_imp(rows, i + 1)
    ELSE insert(rows[i].imp, sorted_imp(rows, i + 1))

\* a + (b - a) * k / 100
lerp(a, b, k) ==
    Rat(100 * a.num * b.den + k * (b.num * a.den - a.num * b.den),
        100 * a.den * b.den)

\* Series.quantile that takes the lower of the two order statistics
quantile_lower(d, p) ==
    LET a == sorted_imp(d.rows, 1)
        n == Len(a)
    IN  IF n = 0 THEN NaN ELSE a[((n - 1) * p) \div 100 + 1]

\* Series.quantile asked for the (100 - p)-th percentile
quantile_complement(d, p) ==
    LET a == sorted_imp(d.rows, 1)
        n == Len(a)
        h == (n - 1) * (100 - p)
        lo == h \div 100
    IN  IF n = 0 THEN NaN
        ELSE IF lo + 2 > n THEN a[n]
        ELSE lerp(a[lo + 1], a[lo + 2], h % 100)

\* line 163: df[imp].quantile(percentile_imp / 100), pandas' default
\* interpolation='linear': NaN is skipped, an empty column gives NaN, and
\* the value lies at position (n - 1) * q of the ascending values
quantile(d, p) ==
    LET a == sorted_imp(d.rows, 1)
        n == Len(a)
        h == (n - 1) * p
        lo == h \div 100
    IN  IF n = 0 THEN NaN
        ELSE IF lo + 2 > n THEN a[n]
        ELSE lerp(a[lo + 1], a[lo + 2], h % 100)

\* lines 165-166: (df[imp] > imp_threshold_val) & (df[ctr] < threshold_ctr_low)
flood_mask(d, cutoff, ctr_low) ==
    {i \in Pos(d) : Gt(d.rows[i].imp, cutoff) /\ Lt(d.rows[i].ctr, ctr_low)}

\* the rows of S whose key no other row of S exceeds (NaN keys come last)
Greatest(d, S, key) ==
    {i \in S : \A j \in S : ~Gt(d.rows[j][key], d.rows[i][key])
                              /\ (d.rows[i][key].nan => d.rows[j][key].nan)}

\* sort_values(by=key, ascending=False) of lines 161 and 167, as index
\* labels.  The call leaves kind at its default, 'quicksort', which pandas
\* documents as not stable: rows of equal key come out in an order the
\* call does not fix.  Every descending order is an outcome.
RECURSIVE sort_values(_, _, _)
sort_values(d, S, key) ==
    IF S = {} THEN {<<>>}
    ELSE UNION {{<<d.rows[i].idx>> \o t : t \in sort_values(d, S \ {i}, key)} :
                i \in Greatest(d, S, key)}

\* The order sort_values gives to rows of equal key is not fixed by the
\* call, but the sort is a function of its input: a run that sorts the
\* rows that the run before it sorted (prev is one of the orders of the
\* same rows) gets them in the same order.
resorted(prev, orders) == IF prev \in orders THEN {prev} ELSE orders

-----------------------------------------------------------------------------
(* Inputs.  The slider positions and the uploaded tables are drawn from    *)
(* small sets.                                                             *)

\* positions of the sliders of lines 140, 141, 144 and 145
CtrHighValues == {Rat(40, 10), Rat(50, 10)}
QualityLowValues == {Rat(5, 10), Rat(2, 10)}
PercentileValues == {50, 75}
CtrLowValues == {Rat(15, 10), Rat(10, 10)}

\* the cell of a column the table lacks
Absent == Val(NaN)

RowSet(cols, ctr, imp, clicks, views) ==
    [ctr : IF "ctr" \in cols THEN ctr ELSE {Absent},
     imp : IF "imp" \in cols THEN imp ELSE {Absent},
     clicks : IF "clicks" \in cols THEN clicks ELSE {Absent},
     views : IF "views" \in cols THEN views ELSE {Absent}]

\* tables as exported, with formatted text cells, placeholders and gaps
CtrText == {Str(<<"5", "%">>)}
ImpText == {Str(<<"1", "0">>), Str(<<"1", ",", "0", "0", "0">>), Val(NaN)}
ClicksText == {Str(<<"-">>), Str(<<"5">>), Str(<<"x">>), Str(<<"-", "5">>)}
ViewsText == {Str(<<"1">>), Str(<<"1", "5">>), Val(NaN)}

TextColumnSets ==
    {Columns, Columns \ {"clicks"}, Columns \ {"views"},
     Columns \ {"clicks", "views"}, Columns \ {"imp"}, Columns \ {"ctr"}}

\* tables whose columns pd.read_csv parsed as numbers
CtrNum == {Val(Num(1)), Val(Num(5))}
ImpNum == {Val(Num(20)), Val(Num(100))}
ClicksNum == {Val(Num(10))}
ViewsNum == {Val(Num(2))}

\* text cells handed to clean_val on its own
Alphabet == {"1", "5", "-", ",", "%", " ", "x"}

Cells ==
    {Str(s) : s \in UNION {[1..n -> Alphabet] : n \in 0..MaxLen}}
        \cup {Val(NaN), Val(Num(0)), Val(Num(7)), Val(Num(0 - 7))}

-----------------------------------------------------------------------------
(* The script *)

\* lines 173-186: px.scatter looks up the click and view columns by name
\* and raises ValueError for a name the frame lacks; nothing catches it
figures_raise(d) ==
    d.rows # <<>> /\ ~({"clicks", "views"} \subseteq d.cols)

\* lines 156-186 for the frame d that load_and_clean_data returned
Analysis(d, ctr_high, quality_low, p, ctr_low) ==
    /\ df' = d
    /\ IF d.none
       THEN \* line 46 reported the failure; line 156 skips the block
            /\ ghost_clicks' = <<>>
            /\ imp_threshold_val' = NaN
            /\ flooding' = <<>>
            /\ messages' = {"read_error"}
            /\ status' = "done"
       ELSE IF "ctr" \notin d.cols
       THEN \* line 159 raises KeyError, outside any try
            /\ ghost_clicks' = <<>>
            /\ imp_threshold_val' = NaN
            /\ flooding' = <<>>
            /\ messages' = {}
            /\ status' = "exception"
       ELSE /\ ghost_clicks' \in
                 resorted(ghost_clicks,
                     sort_values(d, ghost_mask(d, ctr_high, quality_low), "ctr"))
            /\ imp_threshold_val' = quantile(d, p)
            /\ flooding' \in
                 resorted(flooding,
                     sort_values(d, flood_mask(d, quantile(d, p), ctr_low), "imp"))
            /\ messages' = {}
            /\ status' = IF figures_raise(d) THEN "exception" ELSE "done"

\* lines 236-237: no file, st.info asks for one
Prompt ==
    /\ df' = None
    /\ ghost_clicks' = <<>>
    /\ imp_threshold_val' = NaN
    /\ flooding' = <<>>
    /\ messages' = {"upload_prompt"}
    /\ status' = "done"

\* a run of the script after a slider moved: load_and_clean_data is
\* decorated with st.cache_data (line 16), so the run reuses its result
Rerun(ctr_high, quality_low, p, ctr_low) ==
    IF uploaded_file.present
    THEN Analysis(df, ctr_high, quality_low, p, ctr_low)
    ELSE Prompt

\* line 151: a file is uploaded and the script runs
Upload(colsets, ctr, imp, clicks, views, maxrows) ==
    /\ ~uploaded_file.present
    /\ \E cs \in colsets, n \in 0..maxrows :
         \E rows \in [1..n -> RowSet(cs, ctr, imp, clicks, views)] :
            /\ uploaded_file' = File(cs, rows)
            /\ \E d \in load_and_clean_data(File(cs, rows)) :
                 Analysis(d, threshold_ctr_high, threshold_quality_low,
                          percentile_imp, threshold_ctr_low)
    /\ UNCHANGED <<threshold_ctr_high, threshold_quality_low, percentile_imp,
                   threshold_ctr_low, x, cleaned>>

UploadText ==
    Upload(TextColumnSets, CtrText, ImpText, ClicksText, ViewsText, MaxRowsText)

UploadNum == Upload({Columns}, CtrNum, ImpNum, ClicksNum, ViewsNum, MaxRowsNum)

\* line 151: the file is removed from the uploader and the script runs
RemoveFile ==
    /\ uploaded_file.present
    /\ uploaded_file' = NoFile
    /\ Prompt
    /\ UNCHANGED <<threshold_ctr_high, threshold_quality_low, percentile_imp,
                   threshold_ctr_low, x, cleaned>>

\* line 140
SetCtrHigh ==
    \E v \in CtrHighValues \ {threshold_ctr_high} :
        /\ threshold_ctr_high' = v
        /\ Rerun(v, threshold_quality_low, percentile_imp, threshold_ctr_low)
        /\ UNCHANGED <<uploaded_file, threshold_quality_low, percentile_imp,
                       threshold_ctr_low, x, cleaned>>

\* line 141
SetQualityLow ==
    \E v \in QualityLowValues \ {threshold_quality_low} :
        /\ threshold_quality_low' = v
        /\ Rerun(threshold_ctr_high, v, percentile_imp, threshold_ctr_low)
        /\ UNCHANGED <<uploaded_file, threshold_ctr_high, percentile_imp,
                       threshold_ctr_low, x, cleaned>>

\* line 144
SetPercentile ==
    \E v \in PercentileValues \ {percentile_imp} :
        /\ percentile_imp' = v
        /\ Rerun(threshold_ctr_high, threshold_quality_low, v, threshold_ctr_low)
        /\ UNCHANGED <<uploaded_file, threshold_ctr_high, threshold_quality_low,
                       threshold_ctr_low, x, cleaned>>

\* line 145
SetCtrLow ==
    \E v \in CtrLowValues \ {threshold_ctr_low} :
        /\ threshold_ctr_low' = v
        /\ Rerun(threshold_ctr_high, threshold_quality_low, percentile_imp, v)
        /\ UNCHANGED <<uploaded_file, threshold_ctr_high, threshold_quality_low,
                       percentile_imp, x, cleaned>>

\* lines 31-33: clean_val applied to one cell
Normalize ==
    /\ cleaned = <<>>
    /\ cleaned' = <<clean_val(x)>>
    /\ UNCHANGED <<uploaded_file, df, threshold_ctr_high, threshold_quality_low,
                   percentile_imp, threshold_ctr_low, ghost_clicks,
                   imp_threshold_val, flooding, messages, status, x>>

\* the script's first run: no file, the sliders at their defaults
Init ==
    /\ uploaded_file = NoFile
    /\ df = None
    /\ threshold_ctr_high = Rat(40, 10)
    /\ threshold_quality_low = Rat(5, 10)
    /\ percentile_imp = 75
    /\ threshold_ctr_low = Rat(15, 10)
    /\ ghost_clicks = <<>>
    /\ imp_threshold_val = NaN
    /\ flooding = <<>>
    /\ messages = {"upload_prompt"}
    /\ status = "done"
    /\ x = Val(NaN)
    /\ cleaned = <<>>

InitNorm ==
    /\ uploaded_file = NoFile
    /\ df = None
    /\ threshold_ctr_high = Rat(40, 10)
    /\ threshold_quality_low = Rat(5, 10)
    /\ percentile_imp = 75
    /\ threshold_ctr_low = Rat(15, 10)
    /\ ghost_clicks = <<>>
    /\ imp_threshold_val = NaN
    /\ flooding = <<>>
    /\ messages = {"upload_prompt"}
    /\ status = "done"
    /\ x \in Cells
    /\ cleaned = <<>>

Next ==
    \/ UploadNum
    \/ RemoveFile
    \/ SetCtrHigh
    \/ SetQualityLow
    \/ SetPercentile
    \/ SetCtrLow

NextLoad ==
    \/ UploadText
    \/ RemoveFile

\* numeric tables under every slider setting
Spec == Init /\ [][Next]_vars

\* exported tables under the default slider setting
SpecLoad == Init /\ [][NextLoad]_vars

\* clean_val on single cells
SpecNorm == InitNorm /\ [][Normalize]_vars

-----------------------------------------------------------------------------
(* Properties *)

\* the run classified a frame
Classified == uploaded_file.present /\ ~df.none /\ "ctr" \in df.cols

Labels(result) == {result[k] : k \in 1..Len(result)}

\* result lists rows of df, each at most once
ListsRowsOf(result) ==
    /\ Cardinality(Labels(result)) = Len(result)
    /\ \A l \in Labels(result) : \E i \in Pos(df) : df.rows[i].idx = l

\* C1: the ghost-click result lists rows of the cleaned dataset, and a row
\* is listed exactly when ctr > ctr_high and lp_view_rate < quality_low,
\* both strict: a row with ctr = ctr_high or lp_view_rate = quality_low is
\* not listed.
GhostClicksExact ==
    Classified =>
        /\ ListsRowsOf(ghost_clicks)
        /\ \A i \in Pos(df) :
             LET r == df.rows[i]
                 h == threshold_ctr_high
                 q == threshold_quality_low
             IN  /\ r.idx \in Labels(ghost_clicks) <=>
                        /\ ~r.ctr.nan /\ r.ctr.num * h.den > h.num * r.ctr.den
                        /\ ~r.lp.nan /\ r.lp.num * q.den < q.num * r.lp.den
                 /\ (Eq(r.ctr, h) \/ Eq(r.lp, q)) => r.idx \notin Labels(ghost_clicks)

\* C1 witness: a classified frame with a listed row and an unlisted one
GhostClicksSome ==
    /\ Classified /\ status = "done"
    /\ ghost_clicks # <<>>
    /\ Len(ghost_clicks) < Len(df.rows)

\* the order statistic of rank k (from 0) of the impressions of df: the
\* value with at most k values below it and more than k values at or below
OrderStat(k) ==
    CHOOSE v \in {df.rows[i].imp.num : i \in Pos(df)} :
        /\ Cardinality({i \in Pos(df) : df.rows[i].imp.num < v}) <= k
        /\ Cardinality({i \in Pos(df) : df.rows[i].imp.num <= v}) > k

\* 100 times the p-th percentile of the impressions of df, by linear
\* interpolation between the order statistics around rank (n - 1) * p / 100
Cutoff100(p) ==
    LET n == Len(df.rows)
        h == (n - 1) * p
        lo == h \div 100
        hi == IF lo + 1 <= n - 1 THEN lo + 1 ELSE lo
    IN  100 * OrderStat(lo) + (h % 100) * (OrderStat(hi) - OrderStat(lo))

\* C2: the flooding result lists rows of the cleaned dataset, and a row is
\* listed exactly when its impressions exceed impression_cutoff and
\* ctr < ctr_low, where impression_cutoff is the imp_percentile-th
\* percentile of the impressions column by linear interpolation between
\* order statistics.
FloodingExact ==
    Classified =>
        /\ ListsRowsOf(flooding)
        /\ IF df.rows = <<>> THEN imp_threshold_val.nan
           ELSE /\ ~imp_threshold_val.nan
                /\ 100 * imp_threshold_val.num
                       = Cutoff100(percentile_imp) * imp_threshold_val.den
        /\ \A i \in Pos(df) :
             LET r == df.rows[i]
                 c == threshold_ctr_low
             IN  r.idx \in Labels(flooding) <=>
                     /\ ~r.imp.nan /\ r.imp.den = 1
                     /\ 100 * r.imp.num > Cutoff100(percentile_imp)
                     /\ ~r.ctr.nan /\ r.ctr.num * c.den < c.num * r.ctr.den

\* C2 witness: the cutoff lies strictly between two impressions values, a
\* row above it is listed and a low-ctr row below it is not
FloodingInterpolated ==
    /\ Classified /\ status = "done"
    /\ flooding # <<>>
    /\ \E i, j \in Pos(df) :
         /\ 100 * df.rows[i].imp.num < Cutoff100(percentile_imp)
         /\ Cutoff100(percentile_imp) < 100 * df.rows[j].imp.num
         /\ \A k \in Pos(df) :
              100 * df.rows[k].imp.num # Cutoff100(percentile_imp)
         /\ Lt(df.rows[i].ctr, threshold_ctr_low)
         /\ df.rows[i].idx \notin Labels(flooding)

\* C3: for a fixed cleaned dataset and ctr_low, a run with the percentile
\* slider raised lists no more flooding rows than the run before it.
FloodingMonotone ==
    [][(/\ uploaded_file.present /\ uploaded_file' = uploaded_file
        /\ df' = df
        /\ threshold_ctr_low' = threshold_ctr_low
        /\ percentile_imp' >= percentile_imp)
       => Len(flooding') <= Len(flooding)]_vars

\* C3 witness: at the higher slider position the run lists fewer rows than
\* the lower position gives for the same frame
FloodingShrunk ==
    /\ Classified /\ status = "done"
    /\ percentile_imp = 75
    /\ Len(flooding) < Cardinality(flood_mask(df, quantile(df, 50), threshold_ctr_low))

\* C4: every row of the cleaned dataset has impressions above the noise
\* floor 10; a row whose impressions are missing is not in it.
NoiseFloorHolds ==
    (uploaded_file.present /\ ~df.none) =>
        \A i \in Pos(df) :
            /\ ~df.rows[i].imp.nan
            /\ df.rows[i].imp.num > 10 * df.rows[i].imp.den

\* C4 witness: a table with a row of missing impressions and a row that
\* passed the filter
NoiseFloorFiltered ==
    /\ uploaded_file.present /\ ~df.none
    /\ "imp" \in uploaded_file.cols
    /\ \E i \in 1..Len(uploaded_file.rows) : uploaded_file.rows[i].imp = Val(NaN)
    /\ Len(df.rows) = 1

\* q is the quotient a / b (NaN when an operand is NaN)
QuotientIs(q, a, b) ==
    IF a.nan \/ b.nan THEN q.nan
    ELSE ~q.nan /\ q.num * b.num * a.den = a.num * b.den * q.den

\* the frame was derived from a table that has every column
Derived ==
    /\ uploaded_file.present /\ ~df.none
    /\ Columns \subseteq df.cols

\* C5 as stated: lp_view_rate is 0 when link_clicks is 0, and is
\* landing_page_views / link_clicks in every other case.  (Stated for the
\* rows whose click count is not negative.)
LpRateZeroOnlyAtZero ==
    Derived =>
        \A i \in Pos(df) :
            LET r == df.rows[i] IN
            (r.clicks.nan \/ r.clicks.num >= 0) =>
                IF Eq(r.clicks, Num(0)) THEN Eq(r.lp, Num(0))
                ELSE QuotientIs(r.lp, r.views, r.clicks)

\* C5, amended: lp_view_rate is landing_page_views / link_clicks (not
\* clamped) when link_clicks > 0, and exactly 0 in every other case: a
\* click count that is zero, negative or missing.  A zero click count gives
\* neither an error nor NaN.
LpRatePositiveClicks ==
    Derived =>
        \A i \in Pos(df) :
            LET r == df.rows[i] IN
            IF ~r.clicks.nan /\ r.clicks.num > 0
            THEN QuotientIs(r.lp, r.views, r.clicks)
            ELSE r.lp = Num(0)

\* C5 witness: a row with a missing click count and rate 0, and a row whose
\* rate exceeds 1
LpRateCases ==
    /\ Derived
    /\ \E i, j \in Pos(df) :
         /\ df.rows[i].clicks.nan /\ df.rows[i].lp = Num(0)
         /\ Gt(df.rows[j].lp, Num(1))

\* the rows of df with the labels of result, in result order
Listed(result) ==
    [k \in 1..Len(result) |->
        df.rows[CHOOSE i \in Pos(df) : df.rows[i].idx = result[k]]]

\* rows come by descending key, rows of equal key by ascending label
StableDescending(result, key) ==
    \A a, b \in 1..Len(result) :
        a < b =>
            LET ra == Listed(result)[a]
                rb == Listed(result)[b]
            IN  /\ Ge(ra[key], rb[key])
                /\ Eq(ra[key], rb[key]) => ra.idx < rb.idx

\* C6: ghost_clicks is ordered by ctr descending and flooding by
\* impressions descending, rows of equal key in their input order.
ResultsSortedStable ==
    Classified =>
        /\ StableDescending(ghost_clicks, "ctr")
        /\ StableDescending(flooding, "imp")

\* C7: when the link-clicks or landing-page-views column is absent, every
\* row has lp_view_rate 0, the caller gets a data-quality warning, and the
\* run goes on to produce both result sets.  (Stated for tables that have
\* rows and the ctr and impressions columns.)
MissingColumnsWarned ==
    (/\ uploaded_file.present
     /\ uploaded_file.rows # <<>>
     /\ {"ctr", "imp"} \subseteq uploaded_file.cols
     /\ ~({"clicks", "views"} \subseteq uploaded_file.cols))
    => /\ ~df.none
       /\ \A i \in Pos(df) : df.rows[i].lp = Num(0)
       /\ "data_quality_warning" \in messages
       /\ status = "done"

NormalizedNonNegative ==
    (cleaned # <<>> /\ x.str) => (cleaned[1].nan \/ cleaned[1].num >= 0)

\* s without its thousands separators and percent signs
WithoutFormatting(s) == SelectSeq(s, LAMBDA c : c \notin {",", "%"})

\* t is one dash, possibly with whitespace around it
IsDash(t) ==
    \E i \in 1..Len(t) :
        t[i] = "-" /\ \A k \in 1..Len(t) : k # i => t[k] = " "

\* t is a numeral: digits, possibly after one sign, possibly with
\* whitespace around
IsNumeral(t) ==
    \E i, j \in 1..Len(t) :
        /\ i <= j
        /\ \A k \in 1..Len(t) : (k < i \/ k > j) => t[k] = " "
        /\ \/ \A k \in i..j : t[k] \in Digits
           \/ /\ t[i] \in {"-", "+"}
              /\ i < j
              /\ \A k \in (i + 1)..j : t[k] \in Digits

\* C10 as stated: a text cell that is exactly "-" once ',' and '%' are
\* removed gives 0; any other text that is no numeral gives the missing
\* marker.
ExactDashOnlyIsZero ==
    (cleaned # <<>> /\ x.str) =>
        LET t == WithoutFormatting(x.s) IN
        /\ t = <<"-">> => cleaned[1] = Num(0)
        /\ (t # <<"-">> /\ ~IsNumeral(t)) => cleaned[1].nan

\* C10, amended: a text cell that is exactly "-" once ',' and '%' and the
\* surrounding whitespace are removed gives 0, never the missing marker;
\* any other text that is no numeral gives the missing marker.
DashIsZero ==
    (cleaned # <<>> /\ x.str) =>
        LET t == WithoutFormatting(x.s) IN
        /\ IsDash(t) => cleaned[1] = Num(0)
        /\ (~IsDash(t) /\ ~IsNumeral(t)) => cleaned[1].nan

\* C10 witness: a padded, formatted dash was normalised to 0
DashNormalized ==
    /\ cleaned = <<Num(0)>>
    /\ x = Str(<<" ", "-", "%">>)

====
